---- MODULE Spec2Model ----
(***************************************************************************)
(* The event-sourced GameState aggregate of store/src/lib.rs: the          *)
(* validation gate `validade`, the consumption step `consume`, the turn    *)
(* rotation `next_player` and the history log.                             *)
(*                                                                         *)
(* Option<T> is modelled as a sequence of length 0 (None) or 1 (Some(x)).  *)
(* A HashMap is modelled as a function whose DOMAIN is the set of keys.    *)
(* A failed expect()/unwrap() is recorded in `fault`; the process aborts.  *)
(***************************************************************************)
EXTENDS Integers, Sequences, FiniteSets, TLC

\* ------------------------------------------------------------------ bounds
\* Longest run of consume calls explored with the full input alphabet.
MaxHistory == 6

\* Longest run of consume calls explored with the two-seat input alphabet.
MaxSeatHistory == 7

\* ------------------------------------------------------------------ inputs
\* type PlayerId = u64: the ids the callers draw from.
PlayerIds == {1, 2, 3}

\* The ids of the two-seat runs.
SeatIds == {1, 2}

\* Player { name }: the profiles the callers draw from.
Player == {[name |-> "ann"]}

\* CubeCoords { q, r, s }: the coordinates the callers draw from.
CubeCoords == {[q |-> 0, r |-> 0, s |-> 0], [q |-> 1, r |-> 0, s |-> -1]}

\* The coordinate of the two-seat runs.
SeatCoords == {[q |-> 0, r |-> 0, s |-> 0]}

\* rotation: u32, the rotations the callers draw from.
Rotations == {0, 1}

\* The rotation of the two-seat runs.
SeatRotations == {0}

\* ships::SHIPS, the fixed, ordered Ship Roster.
SHIPS == <<"carrier", "destroyer">>

\* enum GameStage
GameStage == {"Lobby", "PreGame", "InGame", "Paused", "Ended"}

\* enum EndGameReason
EndGameReason(ids) ==
    {[kind |-> "PlayerLeft", player_id |-> p] : p \in ids}
        \cup {[kind |-> "PlayerWon", winner |-> p] : p \in ids}

\* enum GameEvent, one set per variant, over the given input alphabet
BeginGameOf(ids) == {[type |-> "BeginGame", first_player |-> p] : p \in ids}

EndGameOf(ids) == {[type |-> "EndGame", reason |-> r] : r \in EndGameReason(ids)}

PlayerJoinedOf(ids) ==
    {[type |-> "PlayerJoined", player_id |-> p, player_details |-> d] :
        p \in ids, d \in Player}

PlayerDisconnectedOf(ids) ==
    {[type |-> "PlayerDisconnected", player_id |-> p] : p \in ids}

ShipMoveOf(ids, coords) ==
    {[type |-> "ShipMove", player_id |-> p, at |-> c] : p \in ids, c \in coords}

ShipPlacedOf(ids, coords, rots) ==
    {[type |-> "ShipPlaced", player_id |-> p, at |-> c, rotation |-> r] :
        p \in ids, c \in coords, r \in rots}

BeginGameEvents == BeginGameOf(PlayerIds)

EndGameEvents == EndGameOf(PlayerIds)

PlayerJoinedEvents == PlayerJoinedOf(PlayerIds)

PlayerDisconnectedEvents == PlayerDisconnectedOf(PlayerIds)

ShipMoveEvents == ShipMoveOf(PlayerIds, CubeCoords)

ShipPlacedEvents == ShipPlacedOf(PlayerIds, CubeCoords, Rotations)

GameEvent ==
    BeginGameEvents \cup EndGameEvents \cup PlayerJoinedEvents
        \cup PlayerDisconnectedEvents \cup ShipMoveEvents \cup ShipPlacedEvents

\* ------------------------------------------------------------------- state
VARIABLES
    stage,           \* GameState.stage
    players,         \* GameState.players: HashMap<PlayerId, Player>
    players_garage,  \* GameState.players_garage: HashMap<PlayerId, VecDeque<ShipType>>
    history,         \* GameState.history: Vec<GameEvent>
    cur_player,      \* GameState.cur_player: Option<PlayerId>
    fault,           \* the panic message of a failed expect/unwrap, or NoFault
    calls,           \* the events passed to consume so far, in call order
    pending          \* the events validade accepted that are not yet consumed

vars == <<stage, players, players_garage, history, cur_player, fault, calls, pending>>

NoFault == "none"

\* HashMap::new()
EmptyMap == [p \in {} |-> 0]

\* The aggregate as one value (struct GameState).
GameState ==
    [stage |-> stage, players |-> players, players_garage |-> players_garage,
     history |-> history, cur_player |-> cur_player]

\* impl Default for GameState
Default ==
    [stage |-> "Lobby", players |-> EmptyMap, players_garage |-> EmptyMap,
     history |-> <<>>, cur_player |-> <<>>]

\* HashMap::insert
MapInsert(m, k, v) == [x \in (DOMAIN m) \cup {k} |-> IF x = k THEN v ELSE m[x]]

\* HashMap::remove
MapRemove(m, k) == [x \in (DOMAIN m) \ {k} |-> m[x]]

\* --------------------------------------------------------------- validade
\* is_player_turn
is_player_turn(s, player_id) ==
    IF s.cur_player # <<>>
    THEN IF player_id = s.cur_player[1] THEN TRUE ELSE FALSE
    ELSE FALSE

\* Mutant: the BeginGame arm without the players.len() != 2 check.
validade_BeginGame_no_count(s, e) ==
    IF e.first_player \notin DOMAIN s.players THEN FALSE ELSE TRUE

\* validade, BeginGame arm
validade_BeginGame(s, e) ==
    IF e.first_player \notin DOMAIN s.players THEN FALSE
    ELSE IF Cardinality(DOMAIN s.players) # 2 THEN FALSE
    ELSE TRUE

\* Mutant: the EndGame arm rejects every reason once the game has ended.
validade_EndGame_once(s, e) ==
    IF s.stage = "Ended" THEN FALSE
    ELSE IF e.reason.kind = "PlayerWon"
    THEN IF s.stage # "InGame" THEN FALSE ELSE TRUE
    ELSE TRUE

\* validade, EndGame arm
validade_EndGame(s, e) ==
    IF e.reason.kind = "PlayerWon"
    THEN IF s.stage # "InGame" THEN FALSE ELSE TRUE
    ELSE TRUE

\* Mutant: the PlayerJoined arm with a cap of two registered players.
validade_PlayerJoined_capped(s, e) ==
    IF e.player_id \in DOMAIN s.players THEN FALSE
    ELSE IF Cardinality(DOMAIN s.players) >= 2 THEN FALSE
    ELSE TRUE

\* validade, PlayerJoined arm
validade_PlayerJoined(s, e) ==
    IF e.player_id \in DOMAIN s.players THEN FALSE ELSE TRUE

\* validade, PlayerDisconnected arm
validade_PlayerDisconnected(s, e) ==
    IF e.player_id \notin DOMAIN s.players THEN FALSE ELSE TRUE

\* validade, ShipMove arm
validade_ShipMove(s, e) == is_player_turn(s, e.player_id)

\* Mutant: the ShipPlaced arm gated on the turn as well.
validade_ShipPlaced_turn_gated(s, e) ==
    IF s.stage # "PreGame" THEN FALSE
    ELSE IF ~is_player_turn(s, e.player_id) THEN FALSE
    ELSE IF e.player_id \in DOMAIN s.players_garage
         THEN IF Len(s.players_garage[e.player_id]) = 0 THEN FALSE ELSE TRUE
         ELSE FALSE

\* Mutant: the ShipPlaced arm without the garage.len() == 0 check.
validade_ShipPlaced_no_len(s, e) ==
    IF s.stage # "PreGame" THEN FALSE
    ELSE IF e.player_id \in DOMAIN s.players_garage THEN TRUE ELSE FALSE

\* validade, ShipPlaced arm
validade_ShipPlaced(s, e) ==
    IF s.stage # "PreGame" THEN FALSE
    ELSE IF e.player_id \in DOMAIN s.players_garage
         THEN IF Len(s.players_garage[e.player_id]) = 0 THEN FALSE ELSE TRUE
         ELSE FALSE

\* GameState::validade
validade(s, e) ==
    CASE e.type = "BeginGame" -> validade_BeginGame(s, e)
      [] e.type = "EndGame" -> validade_EndGame(s, e)
      [] e.type = "PlayerJoined" -> validade_PlayerJoined(s, e)
      [] e.type = "PlayerDisconnected" -> validade_PlayerDisconnected(s, e)
      [] e.type = "ShipMove" -> validade_ShipMove(s, e)
      [] e.type = "ShipPlaced" -> validade_ShipPlaced(s, e)

\* ---------------------------------------------------------------- consume
\* An outcome of consume: the aggregate it leaves and whether it panicked.
Ok(s) == [agg |-> s, fault |-> NoFault]

Panic(s, msg) == [agg |-> s, fault |-> msg]

\* Mutant: the event is inserted at the front of history.
push_history_front(s, e) == [s EXCEPT !.history = <<e>> \o @]

\* self.history.push(valid_event.clone())
push_history(s, e) == [s EXCEPT !.history = Append(@, e)]

\* next_player: the first key of players.iter() that differs from cur_player.
\* The iteration order of a HashMap is unspecified, so every such key is a
\* possible result.
next_player(s) ==
    IF s.cur_player # <<>>
    THEN IF (DOMAIN s.players) \ {s.cur_player[1]} # {}
         THEN {<<k>> : k \in (DOMAIN s.players) \ {s.cur_player[1]}}
         ELSE {<<>>}
    ELSE {<<>>}

\* the deque BeginGame builds for one player: push_back of every ship of SHIPS
RECURSIVE roster_loop(_, _)
roster_loop(deque, i) ==
    IF i > Len(SHIPS) THEN deque ELSE roster_loop(Append(deque, SHIPS[i]), i + 1)

roster_deque == roster_loop(<<>>, 1)

\* Mutant: BeginGame drops the garages of ids that are not registered.
consume_BeginGame_clears(s, e) ==
    {Ok([s EXCEPT
            !.cur_player = <<e.first_player>>,
            !.players_garage = [p \in DOMAIN s.players |-> roster_deque],
            !.stage = "PreGame"])}

\* consume, BeginGame arm
consume_BeginGame(s, e) ==
    {Ok([s EXCEPT
            !.cur_player = <<e.first_player>>,
            !.players_garage =
                [p \in (DOMAIN s.players_garage) \cup (DOMAIN s.players) |->
                    IF p \in DOMAIN s.players THEN roster_deque
                    ELSE s.players_garage[p]],
            !.stage = "PreGame"])}

\* consume, EndGame arm
consume_EndGame(s, e) == {Ok([s EXCEPT !.stage = "Ended"])}

\* Mutant: PlayerDisconnected removes the player's garage as well.
consume_PlayerDisconnected_cleans(s, e) ==
    {Ok([s EXCEPT !.players = MapRemove(@, e.player_id),
                  !.players_garage = MapRemove(@, e.player_id)])}

\* consume, PlayerDisconnected arm
consume_PlayerDisconnected(s, e) ==
    {Ok([s EXCEPT !.players = MapRemove(@, e.player_id)])}

\* Mutant: PlayerJoined seeds a garage for a player who joins during PreGame.
consume_PlayerJoined_seeds(s, e) ==
    {Ok([s EXCEPT !.players = MapInsert(@, e.player_id, e.player_details),
                  !.players_garage =
                      IF s.stage = "PreGame"
                      THEN MapInsert(@, e.player_id, roster_deque)
                      ELSE @])}

\* consume, PlayerJoined arm
consume_PlayerJoined(s, e) ==
    {Ok([s EXCEPT !.players = MapInsert(@, e.player_id, e.player_details)])}

\* consume, ShipMove arm
consume_ShipMove(s, e) ==
    {Ok([s EXCEPT !.cur_player = n]) : n \in next_player(s)}

\* the ships_remainder loop: the sum of the garages' lengths over a set of keys
RECURSIVE ships_remainder(_, _)
ships_remainder(garage, keys) ==
    IF keys = {} THEN 0
    ELSE LET k == CHOOSE x \in keys : TRUE
         IN  Len(garage[k]) + ships_remainder(garage, keys \ {k})

\* Mutant: ShipPlaced takes the ship at the back of the garage (pop_back).
consume_ShipPlaced_pop_back(s, e) ==
    IF e.player_id \notin DOMAIN s.players_garage
    THEN {Panic(s, "expected garage")}
    ELSE IF s.players_garage[e.player_id] = <<>>
    THEN {Panic(s, "expected ships available at garage")}
    ELSE LET popped == [s EXCEPT !.players_garage[e.player_id] =
                                    SubSeq(@, 1, Len(@) - 1)]
         IN  IF \E p \in DOMAIN popped.players : p \notin DOMAIN popped.players_garage
             THEN {Panic(popped, "unwrap on None")}
             ELSE IF ships_remainder(popped.players_garage, DOMAIN popped.players) = 0
             THEN {Ok([popped EXCEPT !.stage = "InGame"])}
             ELSE {Ok(popped)}

\* Mutant: ShipPlaced starts the game as soon as the placing player's own
\* garage is empty.
consume_ShipPlaced_own_garage(s, e) ==
    IF e.player_id \notin DOMAIN s.players_garage
    THEN {Panic(s, "expected garage")}
    ELSE IF s.players_garage[e.player_id] = <<>>
    THEN {Panic(s, "expected ships available at garage")}
    ELSE LET popped == [s EXCEPT !.players_garage[e.player_id] = Tail(@)]
         IN  IF \E p \in DOMAIN popped.players : p \notin DOMAIN popped.players_garage
             THEN {Panic(popped, "unwrap on None")}
             ELSE IF Len(popped.players_garage[e.player_id]) = 0
             THEN {Ok([popped EXCEPT !.stage = "InGame"])}
             ELSE {Ok(popped)}

\* consume, ShipPlaced arm
consume_ShipPlaced(s, e) ==
    IF e.player_id \notin DOMAIN s.players_garage
    THEN {Panic(s, "expected garage")}
    ELSE IF s.players_garage[e.player_id] = <<>>
    THEN {Panic(s, "expected ships available at garage")}
    ELSE LET popped == [s EXCEPT !.players_garage[e.player_id] = Tail(@)]
         IN  IF \E p \in DOMAIN popped.players : p \notin DOMAIN popped.players_garage
             THEN {Panic(popped, "unwrap on None")}
             ELSE IF ships_remainder(popped.players_garage, DOMAIN popped.players) = 0
             THEN {Ok([popped EXCEPT !.stage = "InGame"])}
             ELSE {Ok(popped)}

\* the match of consume
consume_match(s, e) ==
    CASE e.type = "BeginGame" -> consume_BeginGame(s, e)
      [] e.type = "EndGame" -> consume_EndGame(s, e)
      [] e.type = "PlayerDisconnected" -> consume_PlayerDisconnected(s, e)
      [] e.type = "PlayerJoined" -> consume_PlayerJoined(s, e)
      [] e.type = "ShipMove" -> consume_ShipMove(s, e)
      [] e.type = "ShipPlaced" -> consume_ShipPlaced(s, e)

\* GameState::consume: the match, then the push onto history. A panic unwinds
\* before the push.
consume(s, e) ==
    {IF o.fault = NoFault THEN Ok(push_history(o.agg, e)) ELSE o : o \in consume_match(s, e)}

\* ----------------------------------------------------------------- actions
Init ==
    /\ stage = Default.stage
    /\ players = Default.players
    /\ players_garage = Default.players_garage
    /\ history = Default.history
    /\ cur_player = Default.cur_player
    /\ fault = NoFault
    /\ calls = <<>>
    /\ pending = <<>>

\* The caller may submit e: no panic so far, no accepted event outstanding,
\* and validade accepts e.
Accepted(e, cap) ==
    /\ fault = NoFault
    /\ pending = <<>>
    /\ Len(calls) < cap
    /\ validade(GameState, e)

\* The call state.consume(&e) on the aggregate.
Consume(e) ==
    /\ \E o \in consume(GameState, e) :
        /\ stage' = o.agg.stage
        /\ players' = o.agg.players
        /\ players_garage' = o.agg.players_garage
        /\ history' = o.agg.history
        /\ cur_player' = o.agg.cur_player
        /\ fault' = o.fault
    /\ calls' = Append(calls, e)

\* One (validade accepted, then consume) pair of the serialised protocol per
\* event variant.
BeginGame ==
    \E e \in BeginGameEvents :
        /\ Accepted(e, MaxHistory)
        /\ Consume(e)
        /\ UNCHANGED pending

EndGame ==
    \E e \in EndGameEvents :
        /\ Accepted(e, MaxHistory)
        /\ Consume(e)
        /\ UNCHANGED pending

PlayerJoined ==
    \E e \in PlayerJoinedEvents :
        /\ Accepted(e, MaxHistory)
        /\ Consume(e)
        /\ UNCHANGED pending

PlayerDisconnected ==
    \E e \in PlayerDisconnectedEvents :
        /\ Accepted(e, MaxHistory)
        /\ Consume(e)
        /\ UNCHANGED pending

ShipMove ==
    \E e \in ShipMoveEvents :
        /\ Accepted(e, MaxHistory)
        /\ Consume(e)
        /\ UNCHANGED pending

ShipPlaced ==
    \E e \in ShipPlacedEvents :
        /\ Accepted(e, MaxHistory)
        /\ Consume(e)
        /\ UNCHANGED pending

Next ==
    \/ BeginGame
    \/ EndGame
    \/ PlayerJoined
    \/ PlayerDisconnected
    \/ ShipMove
    \/ ShipPlaced

Spec == Init /\ [][Next]_vars

\* The same protocol with the events of two seats only, run longer.
SeatBeginGame ==
    \E e \in BeginGameOf(SeatIds) :
        /\ Accepted(e, MaxSeatHistory)
        /\ Consume(e)
        /\ UNCHANGED pending

SeatEndGame ==
    \E e \in EndGameOf(SeatIds) :
        /\ Accepted(e, MaxSeatHistory)
        /\ Consume(e)
        /\ UNCHANGED pending

SeatPlayerJoined ==
    \E e \in PlayerJoinedOf(SeatIds) :
        /\ Accepted(e, MaxSeatHistory)
        /\ Consume(e)
        /\ UNCHANGED pending

SeatPlayerDisconnected ==
    \E e \in PlayerDisconnectedOf(SeatIds) :
        /\ Accepted(e, MaxSeatHistory)
        /\ Consume(e)
        /\ UNCHANGED pending

SeatShipMove ==
    \E e \in ShipMoveOf(SeatIds, SeatCoords) :
        /\ Accepted(e, MaxSeatHistory)
        /\ Consume(e)
        /\ UNCHANGED pending

SeatShipPlaced ==
    \E e \in ShipPlacedOf(SeatIds, SeatCoords, SeatRotations) :
        /\ Accepted(e, MaxSeatHistory)
        /\ Consume(e)
        /\ UNCHANGED pending

SeatNext ==
    \/ SeatBeginGame
    \/ SeatEndGame
    \/ SeatPlayerJoined
    \/ SeatPlayerDisconnected
    \/ SeatShipMove
    \/ SeatShipPlaced

SpecSeats == Init /\ [][SeatNext]_vars

\* The protocol broken by its caller: two events are validated against the
\* same snapshot, and then both are consumed, the second one on an aggregate
\* the first consume has changed.
StaleEvents ==
    BeginGameOf(SeatIds) \cup EndGameOf(SeatIds) \cup PlayerJoinedOf(SeatIds)
        \cup PlayerDisconnectedOf(SeatIds) \cup ShipMoveOf(SeatIds, SeatCoords)
        \cup ShipPlacedOf(SeatIds, SeatCoords, SeatRotations)

StaleValidate ==
    \E e1, e2 \in StaleEvents :
        /\ fault = NoFault
        /\ pending = <<>>
        /\ Len(calls) + 2 <= MaxSeatHistory
        /\ validade(GameState, e1)
        /\ validade(GameState, e2)
        /\ pending' = <<e1, e2>>
        /\ UNCHANGED <<stage, players, players_garage, history, cur_player, fault, calls>>

ConsumePending ==
    /\ fault = NoFault
    /\ pending # <<>>
    /\ Consume(Head(pending))
    /\ pending' = Tail(pending)

StaleNext ==
    \/ SeatBeginGame
    \/ SeatEndGame
    \/ SeatPlayerJoined
    \/ SeatPlayerDisconnected
    \/ SeatShipMove
    \/ SeatShipPlaced
    \/ StaleValidate
    \/ ConsumePending

SpecStale == Init /\ [][StaleNext]_vars

\* ------------------------------------------------------------------ claims
\* The step consumed event e (the call was made and is the last of calls).
Consumed(e) == calls' = Append(calls, e)

\* The calls to consume that returned.
ReturnedCalls == IF fault = NoFault THEN calls ELSE SubSeq(calls, 1, Len(calls) - 1)

\* C1: every event validade accepts is consumed without a fatal fault (no
\* failed expect/unwrap), also ShipPlaced when a registered player has no
\* garage entry.
C1_ValidatedNeverFaults == fault = NoFault

\* The outcomes of folding consume over the events h[i..], from the outcomes S.
RECURSIVE Fold(_, _, _)
Fold(S, h, i) ==
    IF i > Len(h) THEN S
    ELSE Fold(UNION {IF o.fault = NoFault THEN consume(o.agg, h[i]) ELSE {o} : o \in S},
              h, i + 1)

\* The aggregates a replay of h from the default aggregate can end in.
Replay(h) == Fold({Ok(Default)}, h, 1)

\* C2: folding consume over history from the default aggregate reproduces
\* exactly the current aggregate, whatever choice next_player makes.
C2_ReplayReproduces == fault = NoFault => Replay(history) = {Ok(GameState)}

\* C3: once stage is Ended, no accepted and consumed event changes it.
C3_EndedIsTerminal == [][stage = "Ended" => stage' = "Ended"]_vars

\* C4: validade accepts ShipMove{player_id} iff cur_player = Some(player_id),
\* and with exactly two registered players an accepted ShipMove by m leaves
\* cur_player at the registered player that differs from m.
C4_TurnOwnership ==
    /\ [](\A e \in ShipMoveEvents :
            validade(GameState, e) <=> cur_player = <<e.player_id>>)
    /\ [][\A e \in ShipMoveEvents :
            (Consumed(e) /\ Cardinality(DOMAIN players) = 2)
                => \A q \in (DOMAIN players) \ {e.player_id} : cur_player' = <<q>>]_vars

\* The index in h of its last BeginGame, 0 when it has none.
RECURSIVE LastBeginGame(_, _)
LastBeginGame(h, i) ==
    IF i = 0 THEN 0
    ELSE IF h[i].type = "BeginGame" THEN i
    ELSE LastBeginGame(h, i - 1)

\* The number of ShipPlaced events of a drain run.
DrainTotal == 2 * Len(SHIPS)

\* The calls since the last BeginGame.
SinceBeginGame ==
    SubSeq(calls, LastBeginGame(calls, Len(calls)) + 1, Len(calls))

\* A BeginGame was consumed and only ShipPlaced events of the two registered
\* players were consumed since.
DrainRun ==
    /\ LastBeginGame(calls, Len(calls)) > 0
    /\ \A i \in 1..Len(SinceBeginGame) :
        /\ SinceBeginGame[i].type = "ShipPlaced"
        /\ SinceBeginGame[i].player_id \in DOMAIN players

\* C5: in a drain run, stage is PreGame after every k < N ShipPlaced and
\* InGame after the N-th, N = 2 * Len(SHIPS); no fault occurs and no further
\* ShipPlaced is accepted.
C5_InventoryDrain ==
    DrainRun =>
        /\ fault = NoFault
        /\ Len(SinceBeginGame) <= DrainTotal
        /\ Len(SinceBeginGame) < DrainTotal => stage = "PreGame"
        /\ Len(SinceBeginGame) = DrainTotal =>
            /\ stage = "InGame"
            /\ \A e \in ShipPlacedEvents : ~validade(GameState, e)

C5_Witness ==
    /\ DrainRun
    /\ Len(SinceBeginGame) = DrainTotal
    /\ stage = "InGame"
    /\ \E i, j \in 1..Len(SinceBeginGame) :
        i < j /\ SinceBeginGame[i].player_id > SinceBeginGame[j].player_id

\* C6: in every state, whatever the stage, validade accepts
\* BeginGame{first_player} iff first_player is registered and exactly two
\* players are registered; a BeginGame is consumed only when that held.
C6_BeginGameGate ==
    /\ [](\A e \in BeginGameEvents :
            validade(GameState, e) <=>
                (e.first_player \in DOMAIN players /\ Cardinality(DOMAIN players) = 2))
    /\ [][\A e \in BeginGameEvents :
            Consumed(e) =>
                (e.first_player \in DOMAIN players /\ Cardinality(DOMAIN players) = 2)]_vars

C6_Witness ==
    /\ stage = "Ended"
    /\ Cardinality(DOMAIN players) = 3
    /\ \E i \in 1..Len(history) : history[i].type = "BeginGame"
    /\ \A e \in BeginGameEvents : ~validade(GameState, e)

\* C7: consuming an accepted BeginGame{first_player} sets cur_player to
\* first_player and stage to PreGame, gives every registered player the full
\* roster in roster order, and leaves players and the garages of unregistered
\* ids as they were.
C7_BeginGameEffect ==
    [][\A e \in BeginGameEvents :
        Consumed(e) =>
            /\ fault' = NoFault
            /\ cur_player' = <<e.first_player>>
            /\ stage' = "PreGame"
            /\ players' = players
            /\ DOMAIN players_garage' = (DOMAIN players_garage) \cup (DOMAIN players)
            /\ \A p \in DOMAIN players : players_garage'[p] = SHIPS
            /\ \A p \in (DOMAIN players_garage) \ (DOMAIN players) :
                players_garage'[p] = players_garage[p]]_vars

C7_Witness ==
    /\ Len(calls) > 0
    /\ calls[Len(calls)].type = "BeginGame"
    /\ \E p \in (DOMAIN players_garage) \ (DOMAIN players) :
        players_garage[p] # <<>>
    /\ \E p \in DOMAIN players : players_garage[p] = SHIPS
    /\ stage = "PreGame"

\* C8: in every state validade accepts PlayerJoined{player_id} iff player_id
\* is not registered, whatever the stage and the number of players; a consumed
\* PlayerJoined adds a new key and overwrites no registered profile.
C8_JoinExclusivity ==
    /\ [](\A e \in PlayerJoinedEvents :
            validade(GameState, e) <=> e.player_id \notin DOMAIN players)
    /\ [][\A e \in PlayerJoinedEvents :
            Consumed(e) =>
                /\ e.player_id \notin DOMAIN players
                /\ DOMAIN players' = (DOMAIN players) \cup {e.player_id}
                /\ players'[e.player_id] = e.player_details
                /\ \A p \in DOMAIN players : players'[p] = players[p]]_vars

C8_Witness ==
    /\ Cardinality(DOMAIN players) = 3
    /\ stage = "PreGame"
    /\ Len(calls) > 0
    /\ calls[Len(calls)].type = "PlayerJoined"

\* C9: history is exactly the sequence of the events of the consume calls
\* that returned, in call order.
C9_HistoryIsCallLog == history = ReturnedCalls

C9_Witness ==
    /\ Len(history) >= 4
    /\ \E i, j \in 1..Len(history) : history[i].type # history[j].type
    /\ history[Len(history)].type = "ShipMove"

\* C10: validade accepts ShipPlaced{player_id, at, rotation} iff stage is
\* PreGame and player_id has a non-empty garage, whatever cur_player, at and
\* rotation are.
C10_ShipPlacedGate ==
    \A e \in ShipPlacedEvents :
        validade(GameState, e) <=>
            /\ stage = "PreGame"
            /\ e.player_id \in DOMAIN players_garage
            /\ players_garage[e.player_id] # <<>>

C10_Witness ==
    /\ stage = "PreGame"
    /\ Len(calls) > 0
    /\ calls[Len(calls)].type = "ShipPlaced"
    /\ cur_player # <<calls[Len(calls)].player_id>>
    /\ fault = NoFault
    /\ \E p \in DOMAIN players_garage : players_garage[p] = <<>>

\* The last event passed to consume is of the given variant.
LastCallIs(type) == Len(calls) > 0 /\ calls[Len(calls)].type = type

\* C11: validade accepts EndGame{PlayerWon} iff stage is InGame and
\* EndGame{PlayerLeft} in every state; consuming an accepted EndGame sets
\* stage to Ended, appends the event to history and changes nothing else.
C11_EndGameGateAndEffect ==
    /\ [](\A e \in EndGameEvents :
            validade(GameState, e) <=>
                (e.reason.kind = "PlayerWon" => stage = "InGame"))
    /\ [][\A e \in EndGameEvents :
            Consumed(e) =>
                /\ fault' = NoFault
                /\ stage' = "Ended"
                /\ history' = Append(history, e)
                /\ players' = players
                /\ players_garage' = players_garage
                /\ cur_player' = cur_player]_vars

C11_Witness ==
    /\ LastCallIs("EndGame")
    /\ calls[Len(calls)].reason.kind = "PlayerWon"
    /\ calls[Len(calls)].reason.winner \notin DOMAIN players
    /\ stage = "Ended"
    /\ cur_player # <<>>
    /\ \A e \in EndGameEvents : validade(GameState, e) <=> e.reason.kind = "PlayerLeft"

\* C12: the stage changes from PreGame to InGame only by consuming a
\* ShipPlaced after which every garage of players_garage is empty.
C12_ActiveOnlyOnFullDrain ==
    [][(stage = "PreGame" /\ stage' = "InGame") =>
        /\ \E e \in ShipPlacedEvents : Consumed(e)
        /\ \A p \in DOMAIN players_garage' : players_garage'[p] = <<>>]_vars

\* C13: cur_player, when set, is a key of players.
C13_CurPlayerRegistered == cur_player # <<>> => cur_player[1] \in DOMAIN players

\* C14: validade accepts PlayerDisconnected{player_id} iff player_id is
\* registered; consuming it removes exactly that key from players, appends
\* the event to history and leaves stage, cur_player and players_garage alone.
C14_DisconnectGateAndFrame ==
    /\ [](\A e \in PlayerDisconnectedEvents :
            validade(GameState, e) <=> e.player_id \in DOMAIN players)
    /\ [][\A e \in PlayerDisconnectedEvents :
            Consumed(e) =>
                /\ fault' = NoFault
                /\ DOMAIN players' = (DOMAIN players) \ {e.player_id}
                /\ \A p \in DOMAIN players' : players'[p] = players[p]
                /\ history' = Append(history, e)
                /\ stage' = stage
                /\ cur_player' = cur_player
                /\ players_garage' = players_garage]_vars

C14_Witness ==
    /\ LastCallIs("PlayerDisconnected")
    /\ cur_player = <<calls[Len(calls)].player_id>>
    /\ calls[Len(calls)].player_id \in DOMAIN players_garage
    /\ calls[Len(calls)].player_id \notin DOMAIN players
    /\ players_garage[calls[Len(calls)].player_id] # <<>>

\* The suffixes of the Ship Roster.
RosterSuffixes == {SubSeq(SHIPS, k, Len(SHIPS)) : k \in 1..(Len(SHIPS) + 1)}

\* C15: every garage is a suffix of the Ship Roster; consuming an accepted
\* ShipPlaced{player_id} removes exactly the front ship of player_id's garage
\* and leaves the other garages, players and cur_player unchanged.
C15_FifoInventory ==
    /\ [](\A p \in DOMAIN players_garage : players_garage[p] \in RosterSuffixes)
    /\ [][\A e \in ShipPlacedEvents :
            Consumed(e) =>
                /\ DOMAIN players_garage' = DOMAIN players_garage
                /\ players_garage[e.player_id] # <<>>
                /\ players_garage'[e.player_id] = Tail(players_garage[e.player_id])
                /\ \A p \in (DOMAIN players_garage) \ {e.player_id} :
                    players_garage'[p] = players_garage[p]
                /\ players' = players
                /\ cur_player' = cur_player]_vars

C15_Witness ==
    /\ LastCallIs("ShipPlaced")
    /\ fault = NoFault
    /\ players_garage[calls[Len(calls)].player_id] = <<SHIPS[Len(SHIPS)]>>
    /\ \E p \in DOMAIN players_garage : players_garage[p] = SHIPS

\* C16: the key set of players_garage changes only when BeginGame is
\* consumed, so a player who joins after the last BeginGame has no garage.
C16_GarageOnlyByBeginGame ==
    [][DOMAIN players_garage' # DOMAIN players_garage =>
        \E e \in BeginGameEvents : Consumed(e)]_vars

C16_Witness ==
    /\ LastCallIs("PlayerJoined")
    /\ stage = "PreGame"
    /\ calls[Len(calls)].player_id \in DOMAIN players
    /\ calls[Len(calls)].player_id \notin DOMAIN players_garage
    /\ DOMAIN players_garage # {}

\* The step is a consume on an aggregate changed since the event's validade:
\* the second consume of two events validated against one snapshot.
StaleConsume == Len(pending) = 1 /\ pending' = <<>> /\ Consumed(pending[1])

\* The step panics on the empty garage of the placing player.
EmptyGarageFault ==
    fault = NoFault /\ fault' = "expected ships available at garage"

\* The step consumes a PlayerJoined whose id is registered already.
ProfileOverwritten ==
    \E e \in PlayerJoinedEvents : Consumed(e) /\ e.player_id \in DOMAIN players

\* C17: consume re-validates nothing: a consume on a stale validation can
\* panic on an empty garage or overwrite a registered profile, and with
\* serialised (validade, consume) pairs neither happens.
C17_OnlyStaleConsumeBreaks ==
    [][(EmptyGarageFault \/ ProfileOverwritten) => StaleConsume]_vars

C17_Witness ==
    /\ fault = "expected ships available at garage"
    /\ pending = <<>>
    /\ LastCallIs("ShipPlaced")
    /\ \E i \in 1..(Len(calls) - 1) :
        /\ calls[i].type = "PlayerJoined"
        /\ calls[i + 1] = calls[i]

\* C18: validade accepts ShipMove only while stage is InGame.
C18_MoveOnlyInGame ==
    \A e \in ShipMoveEvents : validade(GameState, e) => stage = "InGame"

\* C19: once a BeginGame has been consumed, cur_player is set and some
\* player's ShipMove is accepted by validade.
C19_TurnNeverLost ==
    (\E i \in 1..Len(history) : history[i].type = "BeginGame") =>
        /\ cur_player # <<>>
        /\ \E e \in ShipMoveEvents : validade(GameState, e)

\* C20: validade accepts ShipPlaced{player_id} or ShipMove{player_id} only if
\* player_id is a key of players.
C20_OnlyRegisteredAct ==
    \A e \in ShipPlacedEvents \cup ShipMoveEvents :
        validade(GameState, e) => e.player_id \in DOMAIN players

====
